---- MODULE Spec2Model ----
(***************************************************************************)
(* The combined temperature monitor of "Event Monitor code/                *)
(* event_monitor.py": the Tk shell's command handlers (start_temp,         *)
(* stop_temp, the two toggles, process_queue, shutdown), the sampling      *)
(* thread temp_worker, the delivery thread publisher_worker, the spool     *)
(* file and the remote topic.                                              *)
(*                                                                         *)
(* Temperatures are integers in millidegrees (22.0 C is 22000).  A uuid4   *)
(* message_id and the utcnow() timestamp are both modelled by the ordinal  *)
(* of the event among all events built so far, which is unique and         *)
(* increasing as a uuid is unique and the clock is increasing.  Widget     *)
(* texts (labels, the change log) are not part of the state.               *)
(***************************************************************************)
EXTENDS Integers, Sequences, FiniteSets, TLC

\* ------------------------------------------------------------- bounds
MaxClicks == 3       \* clicks on Start Temp, Stop Temp and the two checkboxes
MaxCycles == 2       \* sampling cycles begun, over all sampling threads
MaxRetries == 3      \* invalid register reads counted in one read_temp_live
MaxWalkClicks == 1   \* clicks in a run that is left to sample
MaxWalkCycles == 4   \* sampling cycles begun in such a run

\* a run has many clicks and few cycles, or few clicks and many cycles
Budgets == {[clicks |-> MaxClicks, cycles |-> MaxCycles],
            [clicks |-> MaxWalkClicks, cycles |-> MaxWalkCycles]}

\* ---------------------------------------------------- program constants
BASE_TEMP_C == 22000
MAX_VARIATION_C == 5000
SIM_TEMP_MIN == 10000
SIM_TEMP_MAX == 40000
DEVICE_ID_DEFAULT == "dev-windows"
ROM == "28-rom"

\* random.uniform(-MAX_VARIATION_C, MAX_VARIATION_C): a run's random source
\* is one that keeps drawing the lower end, or one that keeps drawing the upper
RandomSources == {{-MAX_VARIATION_C}, {MAX_VARIATION_C}}
\* the two lines of w1_slave as one read finds them: with or without "YES" on
\* the first, t=<millidegrees> on the second
Readings == {[valid |-> TRUE, t |-> 21500], [valid |-> FALSE, t |-> 85000]}

\* every second click at most is a Start Temp that creates a thread
Workers == 1..((MaxClicks + 1) \div 2)

VARIABLES
  os_nt,              \* os.name == "nt"
  pubsub_present,     \* the import of google.cloud.pubsub_v1 succeeded
  rng,                \* the deltas the run's random source yields
  budget,             \* the clicks and sampling cycles the run is explored for
  ds18_initialized,   \* module global _ds18_initialized
  ui,                 \* the Tk thread: "main" (mainloop) or "shutdown" (inside
                      \* shutdown's joins, or past them)
  temp_running,       \* threading.Event temp_running
  publish_running,    \* threading.Event publish_running
  temp_thread,        \* index of the latest sampling thread, 0 for None
  sim_mode_enabled,   \* ModeState.simulate
  publish_enabled,    \* ModeState.publish_enabled
  live_sim_var,       \* the Live/Simulated checkbox
  publish_var,        \* the Publish checkbox
  tw,                 \* the sampling threads' locals and positions
  pw,                 \* the delivery thread's locals and position
  publish_queue,      \* the delivery queue
  output_waiting,     \* output_queue holds a message process_queue has not taken
  force_sim_waiting,  \* how many of the waiting messages are force_sim tuples
  out_shell,          \* every message the Tk thread put on output_queue, in order
  out_temp,           \* every message each sampling thread put, in order
  out_pub,            \* every message the delivery thread put, in order
  spool_file,         \* the lines of spool_unsent_events.jsonl
  remote,             \* the events the topic acknowledged
  after_process_queue,  \* pending root.after(200, process_queue) callbacks
  \* history
  enqueued,           \* every event put on publish_queue, with its thread
  publish_calls,      \* message_ids handed to publisher.publish, in order
  spool_calls,        \* calls of spool_event: message_id, calling path, success
  settled,            \* message_ids for which task_done() was called
  clean_false,        \* message_ids enqueued with publish_enabled false, the
                      \* flag not set again before they were settled
  constructions,      \* PublisherClient() constructions attempted
  pub_started,        \* delivery threads started
  cycles,             \* sampling cycles begun
  mode_clicks,        \* clicks on the Live/Simulated checkbox
  publish_clicks,     \* clicks on the Publish checkbox
  clicks              \* clicks on the two buttons and the two checkboxes

progVars == <<os_nt, pubsub_present, rng, budget, ds18_initialized, ui, temp_running,
              publish_running, temp_thread, sim_mode_enabled, publish_enabled,
              live_sim_var, publish_var, tw, pw, publish_queue,
              output_waiting, force_sim_waiting, out_shell, out_temp, out_pub,
              spool_file, remote, after_process_queue>>

histVars == <<enqueued, publish_calls, spool_calls, settled, clean_false,
              constructions, pub_started, cycles, mode_clicks, publish_clicks,
              clicks>>

vars == <<progVars, histVars>>

\* ------------------------------------------------------------ helpers
\* the tuples put on output_queue; n is the number formatted into the text.
\* "after" is not part of the tuple: on a message put in the step that read a
\* ModeState flag it counts the clicks on that flag's checkbox so far
Message(tag, text, n, c, f) ==
  [tag |-> tag, text |-> text, n |-> n, temp_c |-> c, temp_f |-> f, after |-> 0]
Status(text) == Message("status", text, 0, 0, 0)
Published(sequence) == Message("status", "Published event {}", sequence, 0, 0)
Temp(c, f) == Message("temp", "", 0, c, f)
ForceSim(text) == Message("force_sim", text, 0, 0, 0)

NumForceSim(messages) ==
  Cardinality({i \in DOMAIN messages : messages[i].tag = "force_sim"})

\* output_queue.put of each of messages, in order: process_queue treats a
\* message by its tag alone, so the queue is kept as what waits on it
Put(messages) ==
  /\ output_waiting' = (output_waiting \/ messages # <<>>)
  /\ force_sim_waiting' = force_sim_waiting + NumForceSim(messages)
  /\ UNCHANGED after_process_queue

ShellPut(messages) ==
  /\ Put(messages)
  /\ out_shell' = out_shell \o messages
  /\ UNCHANGED <<out_temp, out_pub>>

Stamped(messages, generation) ==
  [i \in DOMAIN messages |-> [messages[i] EXCEPT !.after = generation]]

TempPut(w, messages) ==
  /\ Put(messages)
  /\ out_temp' = [out_temp EXCEPT ![w] = @ \o messages]
  /\ UNCHANGED <<out_shell, out_pub>>

PubPut(messages) ==
  /\ Put(messages)
  /\ out_pub' = out_pub \o messages
  /\ UNCHANGED <<out_shell, out_temp>>

Max(a, b) == IF a >= b THEN a ELSE b
Min(a, b) == IF a <= b THEN a ELSE b

\* temp_f = temp_c * (9.0 / 5.0) + 32.0, in millidegrees
TempF(temp_c) == (temp_c * 9) \div 5 + 32000

\* a random walk that is not clamped
SimStep_unclamped(current_temp_c, delta) == current_temp_c + delta

\* current_temp_c = max(10.0, min(40.0, current_temp_c + delta))
SimStep(current_temp_c, delta) ==
  Max(SIM_TEMP_MIN, Min(SIM_TEMP_MAX, current_temp_c + delta))

NoEvent ==
  [message_id |-> 0, device_id |-> "", mode |-> "", temp_c |-> 0, temp_f |-> 0,
   timestamp_utc |-> 0, sequence |-> 0, event_type |-> ""]

build_event_payload(device_id, mode, temp_c, temp_f, sequence) ==
  [message_id |-> Len(enqueued) + 1,
   device_id |-> device_id,
   mode |-> mode,
   temp_c |-> temp_c,
   temp_f |-> temp_f,
   timestamp_utc |-> Len(enqueued) + 1,
   sequence |-> sequence,
   event_type |-> "TEMP_READING"]

\* the keys of the payload dict, in the order build_event_payload gives them
EventKeys ==
  <<"message_id", "device_id", "mode", "temp_c", "temp_f", "timestamp_utc",
    "sequence", "event_type">>

\* a serialisation that writes the temperatures in whole degrees
json_dumps_whole_degrees(event_payload) ==
  [i \in DOMAIN EventKeys |->
     <<EventKeys[i],
       IF EventKeys[i] \in {"temp_c", "temp_f"}
         THEN (event_payload[EventKeys[i]] \div 1000) * 1000
         ELSE event_payload[EventKeys[i]]>>]

\* json.dumps(event_payload): the key/value pairs of the dict, in its order
json_dumps(event_payload) ==
  [i \in DOMAIN EventKeys |-> <<EventKeys[i], event_payload[EventKeys[i]]>>]

\* the file after spool_event(event_payload): the line is appended, or the
\* write raised and the except branch only logs
spool_event(file, event_payload, ok) ==
  IF ok THEN Append(file, json_dumps(event_payload)) ELSE file

\* temp_worker's locals, and of the cycle's read_temp_live call: the
\* read_temp_raw_live calls made, the readings without "YES" among them, the
\* time.sleep(0.2) taken, and the reading it returned with
NewTempWorker ==
  [pc |-> "loop", current_temp_c |-> BASE_TEMP_C, last_mode |-> {},
   sequence |-> 0, reads |-> 0, invalid |-> 0, retries |-> 0, returned |-> {}]

IdleTempWorker == [NewTempWorker EXCEPT !.pc = "none"]

NewPublisher ==
  [pc |-> "init", fallback_spool_only |-> FALSE, fallback_status_sent |-> FALSE,
   event_payload |-> NoEvent]

publish_thread_alive == pw.pc \notin {"none", "done"}

\* ---------------------------------------------------------------- Init
Init ==
  /\ os_nt \in BOOLEAN
  /\ pubsub_present \in BOOLEAN
  /\ rng \in RandomSources
  /\ budget \in Budgets
  /\ ds18_initialized = FALSE
  /\ ui = "main"
  /\ temp_running = FALSE
  /\ publish_running = FALSE
  /\ temp_thread = 0
  /\ sim_mode_enabled = TRUE
  /\ publish_enabled = FALSE
  /\ live_sim_var = TRUE
  /\ publish_var = FALSE
  /\ tw = [w \in Workers |-> IdleTempWorker]
  /\ pw = [NewPublisher EXCEPT !.pc = "none"]
  /\ publish_queue = <<>>
  /\ output_waiting = FALSE
  /\ force_sim_waiting = 0
  /\ out_shell = <<>>
  /\ out_temp = [w \in Workers |-> <<>>]
  /\ out_pub = <<>>
  /\ spool_file = <<>>
  /\ remote = <<>>
  /\ after_process_queue = 1
  /\ enqueued = <<>>
  /\ publish_calls = <<>>
  /\ spool_calls = <<>>
  /\ settled = {}
  /\ clean_false = {}
  /\ constructions = 0
  /\ pub_started = 0
  /\ cycles = 0
  /\ mode_clicks = 0
  /\ publish_clicks = 0
  /\ clicks = 0

\* ------------------------------------------------ the shell's handlers
envVars == <<os_nt, pubsub_present, rng, budget>>
modeVars == <<sim_mode_enabled, live_sim_var>>
pubFlagVars == <<publish_enabled, publish_var>>
sinkVars == <<spool_file, remote>>
outVars == <<output_waiting, force_sim_waiting, out_shell, out_temp, out_pub,
             after_process_queue>>
deliveryHist == <<publish_calls, spool_calls, settled, constructions>>
clickHist == <<mode_clicks, publish_clicks, clicks>>

\* one more click, while the run's clicks last
Click ==
  /\ clicks < budget.clicks
  /\ clicks' = clicks + 1

\* start_temp's early return: if temp_running.is_set(): return
StartIsNoop == temp_running

\* stop_temp acts only if temp_running.is_set()
StopIsNoop == ~temp_running

\* an ensure_publisher_thread that starts a thread on every call
PublisherThreadUp_never == FALSE

\* ensure_publisher_thread's early return
PublisherThreadUp == publish_running /\ publish_thread_alive

start_temp ==
  /\ ui = "main"
  /\ Click
  /\ IF StartIsNoop
       THEN UNCHANGED <<temp_running, temp_thread, tw, publish_running, pw,
                        pub_started>>
       ELSE /\ publish_running' = TRUE
            /\ pw' = IF PublisherThreadUp THEN pw ELSE NewPublisher
            /\ pub_started' = IF PublisherThreadUp THEN pub_started
                                                   ELSE pub_started + 1
            /\ temp_running' = TRUE
            /\ temp_thread' = temp_thread + 1
            /\ tw' = [tw EXCEPT ![temp_thread + 1] = NewTempWorker]
  /\ UNCHANGED <<envVars, ds18_initialized, ui, modeVars, pubFlagVars,
                 publish_queue, outVars, sinkVars, enqueued,
                 deliveryHist, clean_false, cycles, mode_clicks, publish_clicks>>

\* stop_temp ends, on either branch, with root.after(200, process_queue)
stop_temp ==
  /\ ui = "main"
  /\ Click
  /\ temp_running' = IF StopIsNoop THEN temp_running ELSE FALSE
  /\ after_process_queue' = after_process_queue + 1
  /\ UNCHANGED <<envVars, ds18_initialized, ui, publish_running, temp_thread,
                 modeVars, pubFlagVars, tw, pw, publish_queue, output_waiting,
                 force_sim_waiting, out_shell, out_temp, out_pub,
                 sinkVars, enqueued, deliveryHist, clean_false, pub_started,
                 cycles, mode_clicks, publish_clicks>>

\* update_mode_from_toggle without the Windows override
LiveRejected_never(requested_sim) == FALSE

\* update_mode_from_toggle: if os.name == "nt" and not requested_sim
LiveRejected(requested_sim) == os_nt /\ ~requested_sim

\* an override that resets the checkbox but writes the flag as asked
RequestedSim_as_asked(requested_sim) == requested_sim

RequestedSim(requested_sim) ==
  IF LiveRejected(requested_sim) THEN TRUE ELSE requested_sim

ModeToggleMessages(requested_sim) ==
  (IF LiveRejected(requested_sim)
     THEN <<Status("Live mode is not supported on Windows; staying in Simulated")>>
     ELSE <<>>)
  \o <<Status(IF RequestedSim(requested_sim) THEN "Simulated mode selected"
                                             ELSE "Live mode selected")>>

\* a click on the Live/Simulated checkbox: Tk flips live_sim_var, then runs
\* update_mode_from_toggle
update_mode_from_toggle ==
  /\ ui = "main"
  /\ Click
  /\ mode_clicks' = mode_clicks + 1
  /\ UNCHANGED publish_clicks
  /\ live_sim_var' = RequestedSim(~live_sim_var)
  /\ sim_mode_enabled' = RequestedSim(~live_sim_var)
  /\ ShellPut(ModeToggleMessages(~live_sim_var))
  /\ UNCHANGED <<envVars, ds18_initialized, ui, temp_running, publish_running,
                 temp_thread, pubFlagVars, tw, pw, publish_queue,
                 sinkVars, enqueued, deliveryHist, clean_false, pub_started,
                 cycles>>

\* a click on the Publish checkbox: Tk flips publish_var, then runs
\* update_publish_toggle
update_publish_toggle ==
  /\ ui = "main"
  /\ Click
  /\ publish_clicks' = publish_clicks + 1
  /\ UNCHANGED mode_clicks
  /\ publish_var' = ~publish_var
  /\ publish_enabled' = ~publish_var
  /\ ShellPut(<<IF ~publish_var
                  THEN Status("Publish enabled")
                  ELSE Status("Publish disabled: events will be spooled")>>)
  /\ clean_false' = IF ~publish_var THEN clean_false \cap settled
                                    ELSE clean_false
  /\ UNCHANGED <<envVars, ds18_initialized, ui, temp_running, publish_running,
                 temp_thread, modeVars, tw, pw, publish_queue, sinkVars,
                 enqueued, deliveryHist, pub_started, cycles>>

\* process_queue: takes every waiting message; a force_sim message sets the
\* checkbox and runs update_mode_from_toggle, whose own status is taken in
\* the same call.  The callback that ran is replaced by the one its closing
\* root.after(200, process_queue) arms
process_queue ==
  /\ ui = "main"
  /\ after_process_queue > 0
  /\ output_waiting
  /\ after_process_queue' = after_process_queue - 1 + 1
  /\ live_sim_var' = IF force_sim_waiting > 0 THEN TRUE ELSE live_sim_var
  /\ sim_mode_enabled' = IF force_sim_waiting > 0 THEN TRUE ELSE sim_mode_enabled
  /\ out_shell' = out_shell \o [i \in 1..force_sim_waiting |->
                                  Status("Simulated mode selected")]
  /\ output_waiting' = FALSE
  /\ force_sim_waiting' = 0
  /\ UNCHANGED <<envVars, ds18_initialized, ui, temp_running, publish_running,
                 temp_thread, pubFlagVars, tw, pw, publish_queue, out_temp,
                 out_pub, sinkVars, histVars>>

\* shutdown: both stop signals are cleared and the Tk thread waits in its
\* joins; it runs no handler again.  The root.destroy() that follows only
\* ends the run: the threads then take no further step
shutdown ==
  /\ ui = "main"
  /\ ui' = "shutdown"
  /\ temp_running' = FALSE
  /\ publish_running' = FALSE
  /\ UNCHANGED <<envVars, ds18_initialized, temp_thread, modeVars, pubFlagVars,
                 tw, pw, publish_queue, outVars, sinkVars, histVars>>

\* ------------------------------------------------ temp_worker (sampling)
shellVars == <<ui, temp_running, publish_running, temp_thread, modeVars,
               pubFlagVars>>

\* sequence += 1
NextSequence(sequence) == sequence + 1

\* a failed cycle that consumes a sequence number
SequenceAfterFailedCycle_counted(sequence) == sequence + 1

\* the "continue" of the unavailable-sensor branch and the except branch
\* are both taken before sequence += 1 is reached
SequenceAfterFailedCycle(sequence) == sequence

\* a delivery queue that hands out the newest event first
Enqueue_lifo(w, event_payload) ==
  /\ publish_queue' = <<event_payload>> \o publish_queue
  /\ enqueued' = Append(enqueued, [worker |-> w, event |-> event_payload])
  /\ clean_false' = IF publish_enabled THEN clean_false
                     ELSE clean_false \cup {event_payload.message_id}

\* publish_queue.put(event_payload), by sampling thread w
Enqueue(w, event_payload) ==
  /\ publish_queue' = Append(publish_queue, event_payload)
  /\ enqueued' = Append(enqueued, [worker |-> w, event |-> event_payload])
  /\ clean_false' = IF publish_enabled THEN clean_false
                     ELSE clean_false \cup {event_payload.message_id}

\* the locals of the last cycle's read_temp_live call are gone
NewCycle(locals) ==
  [locals EXCEPT !.reads = 0, !.invalid = 0, !.retries = 0, !.returned = {}]

\* while running_event.is_set(): the thread wakes from its sleep and tests
\* the flag
temp_worker_loop(w) ==
  /\ tw[w].pc = "loop"
  /\ IF temp_running
       THEN /\ cycles < budget.cycles
            /\ cycles' = cycles + 1
            /\ tw' = [tw EXCEPT ![w] = [NewCycle(@) EXCEPT !.pc = "cycle"]]
       ELSE /\ cycles' = cycles
            /\ tw' = [tw EXCEPT ![w] = [NewCycle(@) EXCEPT !.pc = "done"]]
  /\ UNCHANGED <<envVars, ds18_initialized, shellVars, pw, publish_queue,
                 outVars, sinkVars, enqueued, deliveryHist, clean_false,
                 pub_started, clickHist>>

\* the sim_mode the cycle works with, after the Windows override
EffectiveSim == sim_mode_enabled \/ os_nt

\* a sampling thread that announces the mode in every cycle
ModeChanged_always(w) == TRUE

\* if sim_mode != last_mode
ModeChanged(w) == tw[w].last_mode # {EffectiveSim}

\* the force_sim notice and the mode-active status that open a cycle
CycleHead(w) ==
  (IF os_nt /\ ~sim_mode_enabled
     THEN <<ForceSim("Live mode is not supported on Windows; switched to Simulated")>>
     ELSE <<>>)
  \o (IF ModeChanged(w)
        THEN <<Status(IF EffectiveSim THEN "Simulated mode active"
                                      ELSE "Live mode active")>>
        ELSE <<>>)

\* init_ds18b20's result when the glob finds (or does not find) a device
init_ds18b20(found) == ds18_initialized \/ (~os_nt /\ found)

\* one cycle from the mode read: the whole simulated branch, or the live
\* branch up to the first register read
temp_worker_cycle(w) ==
  /\ tw[w].pc = "cycle"
  /\ IF EffectiveSim
       THEN \E delta \in rng :
              LET temp_c == SimStep(tw[w].current_temp_c, delta)
                  temp_f == TempF(temp_c)
                  sequence == NextSequence(tw[w].sequence)
              IN /\ TempPut(w, Stamped(CycleHead(w) \o <<Temp(temp_c, temp_f)>>,
                                        mode_clicks))
                 /\ Enqueue(w, build_event_payload(DEVICE_ID_DEFAULT, "sim",
                                                   temp_c, temp_f, sequence))
                 /\ tw' = [tw EXCEPT ![w].pc = "loop",
                                     ![w].current_temp_c = temp_c,
                                     ![w].last_mode = {EffectiveSim},
                                     ![w].sequence = sequence]
                 /\ UNCHANGED ds18_initialized
       ELSE \E found \in BOOLEAN :
              /\ ds18_initialized' = init_ds18b20(found)
              /\ IF init_ds18b20(found)
                   THEN /\ TempPut(w, Stamped(CycleHead(w), mode_clicks))
                        /\ tw' = [tw EXCEPT ![w].pc = "reading",
                                            ![w].last_mode = {EffectiveSim}]
                   ELSE /\ TempPut(w, Stamped(
                                   CycleHead(w) \o
                                   <<Status("Live mode: DS18B20 not available")>>,
                                   mode_clicks))
                        /\ tw' = [tw EXCEPT
                                    ![w].pc = "loop",
                                    ![w].last_mode = {EffectiveSim},
                                    ![w].sequence =
                                       SequenceAfterFailedCycle(tw[w].sequence)]
              /\ UNCHANGED <<publish_queue, enqueued, clean_false>>
  /\ UNCHANGED <<envVars, shellVars, pw, sinkVars, deliveryHist,
                 pub_started, cycles, clickHist>>

\* a count that is exact up to MaxRetries and "more" beyond
Counted(n) == Min(n + 1, MaxRetries + 1)

\* a read_temp_live that takes any reading for a valid one
RegisterValid_any(reading) == TRUE

\* "YES" in valid
RegisterValid(reading) == reading.valid

\* read_temp_raw_live returned a reading without "YES": the while loop of
\* read_temp_live is entered, or entered again
temp_worker_read_invalid(w) ==
  /\ tw[w].pc = "reading"
  /\ \E reading \in Readings :
       /\ ~RegisterValid(reading)
       /\ tw' = [tw EXCEPT ![w].pc = "backoff",
                           ![w].reads = Counted(@),
                           ![w].invalid = IF reading.valid THEN @ ELSE Counted(@)]
  /\ UNCHANGED <<envVars, ds18_initialized, shellVars, pw, publish_queue,
                 outVars, sinkVars, enqueued, deliveryHist, clean_false,
                 pub_started, cycles, clickHist>>

\* time.sleep(0.2), then the register is read again
temp_worker_backoff(w) ==
  /\ tw[w].pc = "backoff"
  /\ tw' = [tw EXCEPT ![w].pc = "reading", ![w].retries = Counted(@)]
  /\ UNCHANGED <<envVars, ds18_initialized, shellVars, pw, publish_queue,
                 outVars, sinkVars, enqueued, deliveryHist, clean_false,
                 pub_started, cycles, clickHist>>

\* read_temp_raw_live returned a reading that ends the while loop:
\* read_temp_live returns its sample; temp notification, event, sleep
temp_worker_read_valid(w) ==
  /\ tw[w].pc = "reading"
  /\ \E reading \in Readings :
       LET temp_c == reading.t
           temp_f == TempF(temp_c)
           sequence == NextSequence(tw[w].sequence)
       IN /\ RegisterValid(reading)
          /\ TempPut(w, <<Temp(temp_c, temp_f)>>)
          /\ Enqueue(w, build_event_payload(ROM, "live", temp_c, temp_f, sequence))
          /\ tw' = [tw EXCEPT ![w].pc = "loop",
                              ![w].sequence = sequence,
                              ![w].reads = Counted(@),
                              ![w].invalid = IF reading.valid THEN @ ELSE Counted(@),
                              ![w].returned = {reading}]
  /\ UNCHANGED <<envVars, ds18_initialized, shellVars, pw, sinkVars,
                 deliveryHist, pub_started, cycles, clickHist>>

\* a sampling thread without the except branch: the exception ends it
temp_worker_read_error_fatal(w) ==
  /\ tw[w].pc = "reading"
  /\ TempPut(w, <<Status("Temp read error")>>)
  /\ tw' = [tw EXCEPT ![w].pc = "done"]
  /\ UNCHANGED <<envVars, ds18_initialized, shellVars, pw, publish_queue,
                 sinkVars, enqueued, deliveryHist, clean_false, pub_started,
                 cycles, clickHist>>

\* an except branch that shows the last simulated temperature again
temp_worker_read_error_stale(w) ==
  /\ tw[w].pc = "reading"
  /\ TempPut(w, <<Status("Temp read error"),
                  Temp(tw[w].current_temp_c, TempF(tw[w].current_temp_c))>>)
  /\ tw' = [tw EXCEPT ![w].pc = "loop"]
  /\ UNCHANGED <<envVars, ds18_initialized, shellVars, pw, publish_queue,
                 sinkVars, enqueued, deliveryHist, clean_false, pub_started,
                 cycles, clickHist>>

\* an except branch that switches the monitor to simulated mode
temp_worker_read_error_fallback(w) ==
  /\ tw[w].pc = "reading"
  /\ TempPut(w, <<Status("Temp read error")>>)
  /\ tw' = [tw EXCEPT ![w].pc = "loop"]
  /\ sim_mode_enabled' = TRUE
  /\ UNCHANGED <<envVars, ds18_initialized, ui, temp_running, publish_running,
                 temp_thread, live_sim_var, pubFlagVars, pw, publish_queue,
                 sinkVars, enqueued, deliveryHist, clean_false, pub_started,
                 cycles, clickHist>>

\* read_temp_live raises (the register cannot be opened, has not two lines,
\* or carries no number after t=)
temp_worker_read_error(w) ==
  /\ tw[w].pc = "reading"
  /\ TempPut(w, <<Status("Temp read error")>>)
  /\ tw' = [tw EXCEPT ![w].pc = "loop",
                      ![w].sequence = SequenceAfterFailedCycle(tw[w].sequence)]
  /\ UNCHANGED <<envVars, ds18_initialized, shellVars, pw, publish_queue,
                 sinkVars, enqueued, deliveryHist, clean_false, pub_started,
                 cycles, clickHist>>

\* the sampling thread w takes a step
temp_worker(w) ==
  \/ temp_worker_loop(w)
  \/ temp_worker_cycle(w)
  \/ temp_worker_read_invalid(w)
  \/ temp_worker_backoff(w)
  \/ temp_worker_read_valid(w)
  \/ temp_worker_read_error(w)

\* --------------------------------------------- publisher_worker (delivery)
tempVars == <<temp_running, temp_thread, tw, ds18_initialized, cycles,
              enqueued>>

\* task_done() for the event taken from the queue
TaskDone(event_payload) ==
  settled' = settled \cup {event_payload.message_id}

SpoolCall(event_payload, path, ok) ==
  [message_id |-> event_payload.message_id, path |-> path, ok |-> ok]

\* the thread's prologue: no library, or PublisherClient() raised
publisher_worker_init ==
  /\ pw.pc = "init"
  /\ \E raised \in BOOLEAN :
       /\ pw' = [pw EXCEPT !.pc = "loop",
                           !.fallback_spool_only = ~pubsub_present \/ raised]
       /\ constructions' = IF pubsub_present THEN constructions + 1
                                             ELSE constructions
  /\ UNCHANGED <<envVars, ui, publish_running, modeVars, pubFlagVars, tempVars,
                 publish_queue, outVars, sinkVars, publish_calls,
                 spool_calls, settled, clean_false, pub_started, clickHist>>

\* a spool-only branch that the Publish checkbox can switch off
UseFallback_unless_enabled == pw.fallback_spool_only /\ publish_enabled = FALSE

\* a delivery thread that does not look at the Publish flag
PublishDisabled_never == FALSE

\* if fallback_spool_only
UseFallback == pw.fallback_spool_only

\* if not is_publish_enabled()
PublishDisabled == ~publish_enabled

\* an event was taken from the queue by get(timeout=0.2)
Taken == pw.pc = "loop" /\ publish_queue # <<>>

\* a spool-only branch that announces itself for every event
FallbackStatusDue_always == TRUE

\* if not fallback_status_sent
FallbackStatusDue == ~pw.fallback_status_sent

\* the spool-only branch
publisher_worker_fallback ==
  /\ Taken
  /\ UseFallback
  /\ \E ok \in BOOLEAN :
       /\ spool_file' = spool_event(spool_file, Head(publish_queue), ok)
       /\ spool_calls' = Append(spool_calls,
                                SpoolCall(Head(publish_queue), "fallback", ok))
  /\ PubPut(IF FallbackStatusDue
              THEN <<Status("Pub/Sub unavailable: spooling enabled")>>
              ELSE <<>>)
  /\ pw' = [pw EXCEPT !.fallback_status_sent = TRUE,
                      !.event_payload = Head(publish_queue)]
  /\ TaskDone(Head(publish_queue))
  /\ publish_queue' = Tail(publish_queue)
  /\ UNCHANGED <<envVars, ui, publish_running, modeVars, pubFlagVars, tempVars,
                 remote, publish_calls, constructions, clean_false,
                 pub_started, clickHist>>

\* the publish-disabled branch
publisher_worker_disabled ==
  /\ Taken
  /\ ~UseFallback
  /\ PublishDisabled
  /\ \E ok \in BOOLEAN :
       /\ spool_file' = spool_event(spool_file, Head(publish_queue), ok)
       /\ spool_calls' = Append(spool_calls,
                                SpoolCall(Head(publish_queue), "disabled", ok))
  /\ PubPut(Stamped(<<Status("Publish disabled: event spooled")>>,
                    publish_clicks))
  /\ pw' = [pw EXCEPT !.event_payload = Head(publish_queue)]
  /\ TaskDone(Head(publish_queue))
  /\ publish_queue' = Tail(publish_queue)
  /\ UNCHANGED <<envVars, ui, publish_running, modeVars, pubFlagVars, tempVars,
                 remote, publish_calls, constructions, clean_false,
                 pub_started, clickHist>>

\* publisher.publish(...) is called; the thread waits in future.result
publisher_worker_publish ==
  /\ Taken
  /\ ~UseFallback
  /\ ~PublishDisabled
  /\ publish_calls' = Append(publish_calls, Head(publish_queue).message_id)
  /\ pw' = [pw EXCEPT !.pc = "publishing", !.event_payload = Head(publish_queue)]
  /\ publish_queue' = Tail(publish_queue)
  /\ UNCHANGED <<envVars, ui, publish_running, modeVars, pubFlagVars, tempVars,
                 outVars, sinkVars, spool_calls, settled, constructions,
                 clean_false, pub_started, clickHist>>

\* a delivery thread that spools the event it has just published
publisher_worker_published_and_spooled ==
  /\ pw.pc = "publishing"
  /\ remote' = Append(remote, pw.event_payload)
  /\ spool_file' = spool_event(spool_file, pw.event_payload, TRUE)
  /\ PubPut(<<Published(pw.event_payload.sequence)>>)
  /\ TaskDone(pw.event_payload)
  /\ pw' = [pw EXCEPT !.pc = "loop"]
  /\ UNCHANGED <<envVars, ui, publish_running, modeVars, pubFlagVars, tempVars,
                 publish_queue, publish_calls, spool_calls,
                 constructions, clean_false, pub_started, clickHist>>

\* a delivery thread that puts a failed event back on the queue
publisher_worker_failed_requeued ==
  /\ pw.pc = "publishing"
  /\ \E ok \in BOOLEAN :
       /\ spool_file' = spool_event(spool_file, pw.event_payload, ok)
       /\ spool_calls' = Append(spool_calls,
                                SpoolCall(pw.event_payload, "failed", ok))
  /\ PubPut(<<Status("Publish failed: event spooled")>>)
  /\ TaskDone(pw.event_payload)
  /\ pw' = [pw EXCEPT !.pc = "loop"]
  /\ publish_queue' = Append(publish_queue, pw.event_payload)
  /\ UNCHANGED <<envVars, ui, publish_running, modeVars, pubFlagVars, tempVars,
                 remote, publish_calls, constructions,
                 clean_false, pub_started, clickHist>>

\* future.result(timeout=5) returned the topic's id
publisher_worker_published ==
  /\ pw.pc = "publishing"
  /\ remote' = Append(remote, pw.event_payload)
  /\ PubPut(<<Published(pw.event_payload.sequence)>>)
  /\ TaskDone(pw.event_payload)
  /\ pw' = [pw EXCEPT !.pc = "loop"]
  /\ UNCHANGED <<envVars, ui, publish_running, modeVars, pubFlagVars, tempVars,
                 publish_queue, spool_file, publish_calls, spool_calls,
                 constructions, clean_false, pub_started, clickHist>>

\* publish or future.result raised (timeout, transport error, rejection)
publisher_worker_failed ==
  /\ pw.pc = "publishing"
  /\ \E ok \in BOOLEAN :
       /\ spool_file' = spool_event(spool_file, pw.event_payload, ok)
       /\ spool_calls' = Append(spool_calls,
                                SpoolCall(pw.event_payload, "failed", ok))
  /\ PubPut(<<Status("Publish failed: event spooled")>>)
  /\ TaskDone(pw.event_payload)
  /\ pw' = [pw EXCEPT !.pc = "loop"]
  /\ UNCHANGED <<envVars, ui, publish_running, modeVars, pubFlagVars, tempVars,
                 publish_queue, remote, publish_calls, constructions,
                 clean_false, pub_started, clickHist>>

\* while running_event.is_set() or not publish_queue.empty(): false
publisher_worker_exit ==
  /\ pw.pc = "loop"
  /\ ~publish_running
  /\ publish_queue = <<>>
  /\ pw' = [pw EXCEPT !.pc = "done"]
  /\ UNCHANGED <<envVars, ui, publish_running, modeVars, pubFlagVars, tempVars,
                 publish_queue, outVars, sinkVars, deliveryHist,
                 clean_false, pub_started, clickHist>>

\* ------------------------------------------------------ specification
Next ==
  \/ start_temp
  \/ stop_temp
  \/ update_mode_from_toggle
  \/ update_publish_toggle
  \/ process_queue
  \/ shutdown
  \/ \E w \in Workers : temp_worker_loop(w)
  \/ \E w \in Workers : temp_worker_cycle(w)
  \/ \E w \in Workers : temp_worker_read_invalid(w)
  \/ \E w \in Workers : temp_worker_backoff(w)
  \/ \E w \in Workers : temp_worker_read_valid(w)
  \/ \E w \in Workers : temp_worker_read_error(w)
  \/ publisher_worker_init
  \/ publisher_worker_fallback
  \/ publisher_worker_disabled
  \/ publisher_worker_publish
  \/ publisher_worker_published
  \/ publisher_worker_failed
  \/ publisher_worker_exit

Spec == Init /\ [][Next]_vars

\* every started thread keeps being scheduled; what the register, the topic
\* and the disk answer, and what the user clicks, is left open
FairSpec ==
  /\ Spec
  /\ \A w \in Workers : WF_vars(temp_worker(w))

\* ------------------------------------------------------------ outcomes
\* the object a reader of the spool file gets from one line
json_loads(line) ==
  [key \in {line[i][1] : i \in DOMAIN line} |->
     line[CHOOSE i \in DOMAIN line : line[i][1] = key][2]]

Ids == 1..Len(enqueued)

\* how often the event appears in the spool file, at the topic, among the
\* calls of publisher.publish
SpoolCount(id) ==
  Cardinality({i \in DOMAIN spool_file : json_loads(spool_file[i]).message_id = id})
RemoteCount(id) ==
  Cardinality({i \in DOMAIN remote : remote[i].message_id = id})
PublishCount(id) ==
  Cardinality({i \in DOMAIN publish_calls : publish_calls[i] = id})

\* the calls of spool_event for the event, and whether one of them raised
SpoolCallsFor(id) == {i \in DOMAIN spool_calls : spool_calls[i].message_id = id}
SpoolFailed(id) == \E i \in SpoolCallsFor(id) : ~spool_calls[i].ok

\* at most one call of spool_event, and the line is in the file exactly when
\* that call did not raise
SpooledOnceUnlessWriteFailed(id) ==
  /\ Cardinality(SpoolCallsFor(id)) = 1
  /\ SpoolCount(id) = IF SpoolFailed(id) THEN 0 ELSE 1

TextCount(messages, text) ==
  Cardinality({i \in DOMAIN messages : messages[i].text = text})

\* ------------------------------------------------------------------ C1
\* C1 as stated: every event the Delivery Loop has finished with was delivered
\* once or spooled once, never neither and never both, spool write failures
\* included.
C1_Original ==
  \A id \in settled : SpoolCount(id) + RemoteCount(id) = 1

\* C1, amended: an event has at most one outcome at any time; once the Delivery
\* Loop has finished with it, it has exactly one (delivered once or spooled
\* once), unless the spool write for it failed, and then it has none; an event
\* not yet finished has none.
C1_Amended ==
  \A id \in Ids :
    /\ SpoolCount(id) + RemoteCount(id) <= 1
    /\ id \in settled /\ ~SpoolFailed(id) => SpoolCount(id) + RemoteCount(id) = 1
    /\ SpoolFailed(id) => SpoolCount(id) + RemoteCount(id) = 0
    /\ id \notin settled => SpoolCount(id) + RemoteCount(id) = 0

C1_Witness ==
  \E id1, id2 \in settled :
    /\ RemoteCount(id1) = 1
    /\ SpoolFailed(id2)

\* ------------------------------------------------------------------ C2
\* C2: once shutdown has been issued and the Delivery Loop thread has left its
\* loop, the delivery queue is empty (and stays so: nothing is enqueued
\* afterwards).
C2_Claim ==
  (ui = "shutdown" /\ pw.pc = "done") => publish_queue = <<>>

\* ------------------------------------------------------------------ C3
\* C3 as stated: with the Publisher Disabled at construction, every event
\* taken from the queue is in the spool file, publish is never called and the
\* client is constructed at most once.
C3_Original ==
  pw.fallback_spool_only =>
    /\ publish_calls = <<>>
    /\ constructions <= 1
    /\ \A id \in settled : SpoolCount(id) = 1

\* C3, amended: with the Publisher Disabled at construction, publish is never
\* called, the client is constructed at most once, and every event taken from
\* the queue is handed to spool_event once, on the spool-only branch; it is in
\* the spool file unless that write failed.
C3_Amended ==
  pw.fallback_spool_only =>
    /\ publish_calls = <<>>
    /\ remote = <<>>
    /\ constructions <= 1
    /\ pub_started = 1
    /\ \A id \in settled :
         /\ SpooledOnceUnlessWriteFailed(id)
         /\ \A i \in SpoolCallsFor(id) : spool_calls[i].path = "fallback"

C3_Witness ==
  /\ pw.fallback_spool_only
  /\ constructions = 1
  /\ publish_enabled
  /\ \E id \in settled : id \notin clean_false /\ SpoolCount(id) = 1

\* ------------------------------------------------------------------ C4
\* C4 as stated: an event enqueued while publish_enabled is false, the flag
\* staying false until the event is finished, is in the spool file and was
\* never handed to publish.
C4_Original ==
  \A id \in clean_false \cap settled :
    PublishCount(id) = 0 /\ SpoolCount(id) = 1

\* C4, amended: such an event is never handed to publish, and once finished it
\* was handed to spool_event once; it is in the spool file unless that write
\* failed.
C4_Amended ==
  \A id \in clean_false :
    /\ PublishCount(id) = 0
    /\ RemoteCount(id) = 0
    /\ id \in settled => SpooledOnceUnlessWriteFailed(id)

\* the only event of the run was enqueued and spooled after the flag had gone
\* true and false again
C4_Witness ==
  /\ publish_clicks = 2
  /\ Len(enqueued) = 1
  /\ 1 \in clean_false \cap settled
  /\ SpoolCount(1) = 1
  /\ \E i \in DOMAIN out_pub : out_pub[i].after = 2

\* ------------------------------------------------------------------ C5
\* the "publish disabled" statuses put while the flag was false for the g-th
\* time (after g clicks on the checkbox): the toggle's own, for g >= 2, and
\* the delivery thread's
DisabledStatuses(g) ==
  (IF g >= 2 /\ g % 2 = 0 /\ g <= publish_clicks THEN 1 ELSE 0)
  + Cardinality({i \in DOMAIN out_pub :
                   /\ out_pub[i].text = "Publish disabled: event spooled"
                   /\ out_pub[i].after = g})

\* C5: a period in which publish_enabled is false sees at most one "publish
\* disabled" status on the channel, however many events are processed in it.
C5_Claim ==
  \A g \in 0..MaxClicks : DisabledStatuses(g) <= 1

\* ------------------------------------------------------------------ C6
\* every message the sampling threads have put
SamplerMessages ==
  UNION {{out_temp[w][i] : i \in DOMAIN out_temp[w]} : w \in Workers}

\* C6 as stated: on a platform without sensor support, once a cycle has run
\* after a request for live mode, the Sampling Loop has emitted a
\* ForceSimulate notification.
C6_Original ==
  os_nt =>
    \A m \in SamplerMessages :
      (m.tag = "temp" /\ m.after >= 1) =>
        \E f \in SamplerMessages : f.tag = "force_sim"

\* C6, amended: on such a platform the shell rejects every request for live
\* mode itself: the checkbox and the simulate flag stay true, one "staying in
\* Simulated" status is put per request, the Sampling Loop emits no
\* ForceSimulate notification and attempts no live read, and every event has
\* mode sim.
C6_Amended ==
  os_nt =>
    /\ sim_mode_enabled
    /\ live_sim_var
    /\ force_sim_waiting = 0
    /\ \A m \in SamplerMessages :
         /\ m.tag # "force_sim"
         /\ m.text \notin {"Live mode active", "Live mode: DS18B20 not available",
                           "Temp read error"}
    /\ \A w \in Workers : tw[w].pc # "reading"
    /\ ~ds18_initialized
    /\ \A i \in DOMAIN enqueued : enqueued[i].event.mode = "sim"
    /\ TextCount(out_shell,
                 "Live mode is not supported on Windows; staying in Simulated")
         = mode_clicks
    /\ TextCount(out_shell, "Live mode selected") = 0

\* a second request was overridden as the first, and a cycle ran after it
C6_Witness ==
  /\ os_nt
  /\ mode_clicks = 2
  /\ \E m \in SamplerMessages : m.tag = "temp" /\ m.after = 2

\* ------------------------------------------------------------------ C7
\* the events sampling thread w has enqueued, in order
EventsOf(w) == SelectSeq(enqueued, LAMBDA e : e.worker = w)

\* C7: the events one Sampling Loop thread enqueues carry the sequence numbers
\* 1, 2, 3, ... without gap or repeat, whatever cycles failed in between, and
\* the thread's counter is the number of events it has enqueued.
C7_Theorem ==
  \A w \in Workers :
    /\ Len(EventsOf(w)) = tw[w].sequence
    /\ \A i \in DOMAIN EventsOf(w) : EventsOf(w)[i].event.sequence = i

\* a thread enqueued an event after a cycle of its own had failed
C7_Witness ==
  \E w \in Workers :
    /\ tw[w].sequence >= 1
    /\ \E i, j \in DOMAIN out_temp[w] :
         /\ i < j
         /\ out_temp[w][i].text \in {"Live mode: DS18B20 not available",
                                     "Temp read error"}
         /\ out_temp[w][j].tag = "temp"

\* ------------------------------------------------------------------ C8
\* C8: over the whole run of the process, Stop Temp and Start Temp included,
\* the sequence numbers of the enqueued events are strictly increasing.
C8_Claim ==
  \A i, j \in DOMAIN enqueued :
    i < j => enqueued[i].event.sequence < enqueued[j].event.sequence

FailedIds ==
  {spool_calls[i].message_id :
     i \in {k \in DOMAIN spool_calls : spool_calls[k].path = "failed"}}

\* C10 as stated: an event whose publish attempt failed is in the spool file
\* once, was attempted once, and is finished.
C10_Original ==
  \A id \in FailedIds :
    /\ SpoolCount(id) = 1
    /\ PublishCount(id) = 1
    /\ id \in settled

\* C10, amended: an event whose publish attempt failed was attempted once and
\* never again, was handed to spool_event once and is in the spool file unless
\* that write failed, is finished and not back on the queue; the failures and
\* the "Publish failed: event spooled" statuses are equally many, and the
\* thread is not working on a failed event again.
C10_Amended ==
  /\ \A id \in FailedIds :
       /\ PublishCount(id) = 1
       /\ RemoteCount(id) = 0
       /\ SpooledOnceUnlessWriteFailed(id)
       /\ id \in settled
       /\ \A i \in DOMAIN publish_queue : publish_queue[i].message_id # id
       /\ pw.pc = "publishing" => pw.event_payload.message_id # id
  /\ TextCount(out_pub, "Publish failed: event spooled") = Cardinality(FailedIds)

\* the event after a failed and spooled one was processed in its turn
C10_Witness ==
  \E id \in FailedIds :
    /\ SpoolCount(id) = 1
    /\ id + 1 \in settled
    /\ pw.pc = "loop"

\* ----------------------------------------------------------------- C11
\* the status texts with which the sampling thread reports a failed cycle
FailedCycleTexts == {"Live mode: DS18B20 not available", "Temp read error"}

\* the last message thread w has put, if it put one in this step
PutNow(w) ==
  IF Len(out_temp'[w]) > Len(out_temp[w])
    THEN {out_temp'[w][Len(out_temp'[w])]}
    ELSE {}

\* C11: a thread leaves its loop only in a step in which its stop signal is
\* clear, and the step in which a cycle fails (sensor unavailable, read or
\* parse error) or in which spool_event is called (after a failed publish, or
\* with the write failing) leaves the thread in its loop.
C11_Theorem ==
  [][ /\ \A w \in Workers :
           /\ (tw[w].pc # "done" /\ tw'[w].pc = "done") => ~temp_running
           /\ (\E m \in PutNow(w) : m.text \in FailedCycleTexts)
                => tw'[w].pc = "loop"
      /\ (pw.pc # "done" /\ pw'.pc = "done") => ~publish_running
      /\ Len(spool_calls') > Len(spool_calls) => pw'.pc = "loop"
    ]_vars

\* a sampling thread is in its loop after a read error, and the delivery
\* thread after a failed publish whose spool write failed too
C11_Witness ==
  /\ \E w \in Workers :
       /\ tw[w].pc = "loop"
       /\ temp_running
       /\ TextCount(out_temp[w], "Temp read error") = 1
  /\ pw.pc = "loop"
  /\ \E i \in DOMAIN spool_calls :
       spool_calls[i].path = "failed" /\ ~spool_calls[i].ok

\* ----------------------------------------------------------------- C12
\* the temp notifications sampling thread w has put, in order: one per event
TempsOf(w) == SelectSeq(out_temp[w], LAMBDA m : m.tag = "temp")

InSimRange(temp_c) == SIM_TEMP_MIN <= temp_c /\ temp_c <= SIM_TEMP_MAX

\* C12: every thread's simulated temperature is within [10.0, 40.0], and so
\* is the temp_c of every sim event and of the temp notification put with it,
\* whatever live and failed cycles lie in between.
C12_Theorem ==
  \A w \in Workers :
    /\ InSimRange(tw[w].current_temp_c)
    /\ Len(TempsOf(w)) = Len(EventsOf(w))
    /\ \A k \in DOMAIN EventsOf(w) :
         EventsOf(w)[k].event.mode = "sim" =>
           /\ InSimRange(EventsOf(w)[k].event.temp_c)
           /\ TempsOf(w)[k].temp_c = EventsOf(w)[k].event.temp_c

\* the walk was clamped at the upper bound: 22, 27, 32, 37, and 40 for 42
C12_Witness ==
  \E i \in DOMAIN enqueued :
    /\ enqueued[i].event.mode = "sim"
    /\ enqueued[i].event.sequence = 4
    /\ enqueued[i].event.temp_c = SIM_TEMP_MAX

\* ----------------------------------------------------------------- C13
\* C13: when read_temp_live has returned after k readings without the
\* validity marker, the reading it returned with is a valid one, the register
\* was read k + 1 times with k sleeps in between, and the temp notification
\* and the event of the cycle carry that reading's t as temp_c (millidegrees)
\* and its Fahrenheit value; t=21500 gives 21.5 C and 70.7 F.
C13_Theorem ==
  \A w \in Workers :
    \A reading \in tw[w].returned :
      LET k == tw[w].invalid
          event == EventsOf(w)[Len(EventsOf(w))].event
          temp == TempsOf(w)[Len(TempsOf(w))]
      IN /\ reading.valid
         /\ k <= MaxRetries => tw[w].retries = k /\ tw[w].reads = k + 1
         /\ event.mode = "live"
         /\ event.temp_c = reading.t
         /\ temp.temp_c = reading.t
         /\ temp.temp_f = event.temp_f
         /\ reading.t = 21500 => event.temp_c = 21500 /\ event.temp_f = 70700

\* a sample returned after three readings without the marker
C13_Witness ==
  \E w \in Workers :
    /\ tw[w].returned # {}
    /\ tw[w].invalid = 3
    /\ tw[w].reads = 4
    /\ EventsOf(w)[Len(EventsOf(w))].event.temp_f = 70700

\* ----------------------------------------------------------------- C16
\* inside read_temp_live
InLiveRead(w) == tw[w].pc \in {"reading", "backoff"}

\* C16: a sampling thread that is inside its live read while the stop signal
\* is clear eventually exits (unless sampling is started again), whatever the
\* register reports.
C16_Claim ==
  \A w \in Workers :
    (InLiveRead(w) /\ ~temp_running) ~> (tw[w].pc = "done" \/ temp_running)

\* ----------------------------------------------------------------- C14
\* C14: every line of the spool file, read back, is the event that was
\* enqueued under its message_id, equal in all eight fields, whichever branch
\* of the delivery thread spooled it.
C14_Theorem ==
  \A i \in DOMAIN spool_file :
    LET record == json_loads(spool_file[i])
    IN /\ DOMAIN record = {EventKeys[k] : k \in DOMAIN EventKeys}
       /\ record.message_id \in Ids
       /\ record = enqueued[record.message_id].event

\* the file holds a line written on the publish-disabled branch and one
\* written after a failed publish
C14_Witness ==
  /\ Len(spool_file) = 2
  /\ \E i, j \in DOMAIN spool_calls :
       /\ spool_calls[i].ok /\ spool_calls[i].path = "disabled"
       /\ spool_calls[j].ok /\ spool_calls[j].path = "failed"

\* ----------------------------------------------------------------- C15
\* C15: the events on the delivery queue come from one sampling thread at a
\* time: once a later thread has enqueued an event, no earlier thread
\* enqueues one.
C15_Claim ==
  \A i, j \in DOMAIN enqueued :
    i < j => enqueued[i].worker <= enqueued[j].worker

\* ----------------------------------------------------------------- C17
\* the status texts the delivery thread has for its four outcomes
DeliveryTexts ==
  {"Pub/Sub unavailable: spooling enabled", "Publish disabled: event spooled",
   "Published event {}", "Publish failed: event spooled"}

SpoolCallsWith(path, ok) ==
  {i \in DOMAIN spool_calls : spool_calls[i].path = path /\ spool_calls[i].ok = ok}

\* C17: every failed spool write has a status of its own on the channel, and
\* the statuses saying "event spooled" are as many as the writes that
\* succeeded on their branch.
C17_Claim ==
  /\ Cardinality({i \in DOMAIN out_pub : out_pub[i].text \notin DeliveryTexts})
       = Cardinality({i \in DOMAIN spool_calls : ~spool_calls[i].ok})
  /\ TextCount(out_pub, "Publish disabled: event spooled")
       = Cardinality(SpoolCallsWith("disabled", TRUE))
  /\ TextCount(out_pub, "Publish failed: event spooled")
       = Cardinality(SpoolCallsWith("failed", TRUE))

\* ----------------------------------------------------------------- C18
\* C18: while live mode stays selected (no click on the checkbox in between),
\* a sampling thread puts "Live mode: DS18B20 not available" at most once.
C18_Claim ==
  \A w \in Workers :
    \A i, j \in DOMAIN out_temp[w] :
      ( /\ i < j
        /\ out_temp[w][i].text = "Live mode: DS18B20 not available"
        /\ out_temp[w][j].text = "Live mode: DS18B20 not available" )
      => out_temp[w][i].after # out_temp[w][j].after

\* ----------------------------------------------------------------- C19
\* C19: with the Publisher Disabled at construction, "Pub/Sub unavailable:
\* spooling enabled" is put exactly once as soon as an event has been
\* processed, it is the first message of the delivery thread, no message
\* before an event is processed, and the publish-disabled text never appears.
C19_Theorem ==
  pw.fallback_spool_only =>
    /\ TextCount(out_pub, "Pub/Sub unavailable: spooling enabled")
         = IF spool_calls = <<>> THEN 0 ELSE 1
    /\ out_pub # <<>> => out_pub[1].text = "Pub/Sub unavailable: spooling enabled"
    /\ TextCount(out_pub, "Publish disabled: event spooled") = 0
    /\ "Pub/Sub unavailable: spooling enabled" # "Publish disabled: event spooled"
    /\ pub_started = 1

\* two events were processed in the Disabled state
C19_Witness ==
  /\ pw.fallback_spool_only
  /\ Cardinality(SpoolCallsWith("fallback", TRUE)
                 \cup SpoolCallsWith("fallback", FALSE)) = 2
  /\ Len(out_pub) = 1

\* ----------------------------------------------------------------- C20
ModeActiveTexts == {"Simulated mode active", "Live mode active"}

\* the mode-active statuses sampling thread w has put, in order
ModeActiveOf(w) == SelectSeq(out_temp[w], LAMBDA m : m.text \in ModeActiveTexts)

\* C20: a sampling thread that has begun a cycle has put a mode-active
\* status, before any temp notification or failure status of its own; no two
\* consecutive mode-active statuses of one thread have the same text; and the
\* last one names the mode of the thread's latest cycle.
C20_Theorem ==
  \A w \in Workers :
    /\ tw[w].last_mode # {} =>
         /\ ModeActiveOf(w) # <<>>
         /\ \A i \in DOMAIN out_temp[w] :
              (\A j \in 1..(i - 1) : out_temp[w][j].text \notin ModeActiveTexts)
                => out_temp[w][i].tag \in {"force_sim", "status"}
                   /\ out_temp[w][i].text \notin FailedCycleTexts
         /\ ModeActiveOf(w)[Len(ModeActiveOf(w))].text =
              (IF tw[w].last_mode = {TRUE} THEN "Simulated mode active"
                                           ELSE "Live mode active")
    /\ tw[w].last_mode = {} => out_temp[w] = <<>>
    /\ \A i \in 1..(Len(ModeActiveOf(w)) - 1) :
         ModeActiveOf(w)[i].text # ModeActiveOf(w)[i + 1].text

\* a thread ran four cycles in one mode and announced the mode once
C20_Witness ==
  \E w \in Workers : Len(TempsOf(w)) = 4 /\ Len(ModeActiveOf(w)) = 1

\* ----------------------------------------------------------------- C21
\* C21: the step in which a sampling thread reports "Temp read error" puts
\* that status and nothing else, enqueues nothing, leaves the thread's
\* sequence counter and simulated temperature as they were, and returns the
\* thread to the head of its loop.
C21_Theorem ==
  [][ \A w \in Workers :
        (TextCount(out_temp'[w], "Temp read error")
           > TextCount(out_temp[w], "Temp read error")) =>
          /\ out_temp'[w] = Append(out_temp[w], Status("Temp read error"))
          /\ enqueued' = enqueued
          /\ publish_queue' = publish_queue
          /\ tw'[w].sequence = tw[w].sequence
          /\ tw'[w].current_temp_c = tw[w].current_temp_c
          /\ tw'[w].pc = "loop"
    ]_vars

\* after a read error the thread has begun its next cycle and is reading again
C21_Witness ==
  \E w \in Workers :
    /\ TextCount(out_temp[w], "Temp read error") = 1
    /\ tw[w].pc = "reading"
    /\ TempsOf(w) = <<>>
    /\ tw[w].sequence = 0

\* ----------------------------------------------------------------- C22
\* C22: one delivery thread at most is started in a run, whatever is clicked;
\* the spool file holds exactly the lines of that thread's successful
\* spool_event calls, in their order, and is empty while no thread was started.
C22_Theorem ==
  /\ pub_started <= 1
  /\ pub_started = 0 <=> pw.pc = "none"
  /\ pub_started = 0 => spool_file = <<>> /\ spool_calls = <<>>
  /\ LET written == SelectSeq(spool_calls, LAMBDA call : call.ok)
     IN /\ Len(spool_file) = Len(written)
        /\ \A i \in DOMAIN spool_file :
             json_loads(spool_file[i]).message_id = written[i].message_id

\* sampling was started twice, and the one delivery thread has spooled
C22_Witness ==
  /\ temp_thread = 2
  /\ pub_started = 1
  /\ spool_file # <<>>

\* ----------------------------------------------------------------- C23
\* C23: a step that changes sim_mode_enabled or publish_enabled is a step of
\* the shell: a click on a checkbox, or process_queue.
C23_Theorem ==
  [][ (sim_mode_enabled' # sim_mode_enabled \/ publish_enabled' # publish_enabled)
        => (update_mode_from_toggle \/ update_publish_toggle \/ process_queue)
    ]_vars

\* both flags were changed by the shell, and both threads have worked since:
\* a live cycle has failed and an event was published
C23_Witness ==
  /\ ~sim_mode_enabled
  /\ publish_enabled
  /\ remote # <<>>
  /\ \E w \in Workers : TextCount(out_temp[w], "Temp read error") = 1

\* ----------------------------------------------------------------- C24
\* C24: with one sampling thread, the events the delivery thread has finished
\* are the first ones enqueued, at any time (so they are finished in enqueue
\* order), an event being published is the next one, message_id and sequence
\* number agree, and the temp notification of every enqueued event, hence of
\* every event a delivery status is about, has been put.
C24_Theorem ==
  temp_thread <= 1 =>
    /\ \A id \in settled : \A earlier \in 1..id : earlier \in settled
    /\ pw.pc = "publishing" =>
         pw.event_payload.message_id = Cardinality(settled) + 1
    /\ \A id \in Ids :
         /\ enqueued[id].event.sequence = id
         /\ Len(TempsOf(1)) >= id
         /\ TempsOf(1)[id].temp_c = enqueued[id].event.temp_c
    /\ \A i \in DOMAIN out_pub :
         out_pub[i].text = "Published event {}" => out_pub[i].n <= Len(TempsOf(1))

\* two events waited on the queue together and were finished one after the
\* other
C24_Witness ==
  /\ temp_thread = 1
  /\ settled = {1, 2}
  /\ Len(remote) = 2
  /\ remote[1].sequence = 1
  /\ remote[2].sequence = 2

\* ----------------------------------------------------------------- C25
\* C25: on Windows the simulate flag is true in every state, and no sampling
\* thread has ever found it false: none has put a force_sim message, and none
\* waits for process_queue.
C25_Theorem ==
  os_nt =>
    /\ sim_mode_enabled
    /\ force_sim_waiting = 0
    /\ \A w \in Workers : NumForceSim(out_temp[w]) = 0

\* live mode was asked for, a cycle ran after that, and process_queue has
\* taken every message
C25_Witness ==
  /\ os_nt
  /\ mode_clicks = 1
  /\ \E m \in SamplerMessages : m.tag = "temp" /\ m.after = 1
  /\ ~output_waiting

====
